---- MODULE Spec2Model ----
(***************************************************************************)
(* arMa.py: the segmented-transfer engine.  download_segment fetches one   *)
(* segment with range-resume and retries; download_and_merge_segments      *)
(* (and download_dash, the same code with a fixed pool of 4) runs the      *)
(* segment jobs on a ThreadPoolExecutor, collects the results in           *)
(* completion order, writes the concat manifest, runs ffmpeg and cleans    *)
(* up.  download_file fetches a direct file into a name chosen by          *)
(* ensure_unique_filename.                                                 *)
(*                                                                         *)
(* A file's content is a sequence of byte offsets of the server's body     *)
(* (one unit = one 1024-byte chunk), so that the server's body is          *)
(* <<0, 1, .., TotalSize-1>> and a duplicated or missing range shows in    *)
(* the content and in the size.                                            *)
(***************************************************************************)
EXTENDS Integers, Sequences, FiniteSets, TLC

\* ---------------------------------------------------------------- bounds
MaxSegs == 2
MaxParallel == 2
TotalSize == 2
MaxExisting == 2
MaxFaults == 1
OrderSegs == 10

\* ------------------------------------------------------ program constants
MAX_RETRIES == 5

VARIABLES
    total,          \* len(playlist.segments)
    parallel,       \* max_workers of the pool
    honorsRange,    \* the server answers a Range request with partial content
    faults,         \* exceptions the network and the disk may still raise
    existing,       \* output names found in the directory by os.path.exists
    part,           \* segment_<i>.ts.part: NoFile or its content
    final,          \* segment_<i>.ts: NoFile or its content
    pc,             \* position of segment job i
    attempt,        \* download_segment's loop variable
    gets,           \* requests.get calls download_segment made for segment i
    downloaded,     \* download_segment's local, read once before the loop
    resp,           \* body of the open response still to be streamed
    lastError,      \* kind of the exception caught in the current attempt
    opc,            \* position of the orchestrator (main thread)
    yielded,        \* futures as_completed has handed to the loop
    segment_files,  \* list of results, in collection order
    concat_file,    \* NoManifest or the manifest's lines
    mp4_file,       \* result of ensure_unique_filename, NoName before
    returncode,     \* ffmpeg's exit code, NoCode before it ran
    saved,          \* the "[v] Saved merged video as" message was printed
    exitStatus,     \* the process's exit status, NoCode while running
    resume,         \* download_file's parameter
    disk,           \* <filename><ext>, <filename>_1<ext>, ..: NoFile or content
    full_path,      \* download_file's local: the suffix of the chosen name
    mode,           \* download_file's local: "ab" or "wb", "none" before
    fdownloaded,    \* download_file's local downloaded
    fresp,          \* body of download_file's response still to be streamed
    fpc             \* position of download_file

vars == <<total, parallel, honorsRange, faults, existing, part, final, pc, attempt,
          gets, downloaded, resp, lastError, opc, yielded, segment_files,
          concat_file, mp4_file, returncode, saved, exitStatus, resume, disk,
          full_path, mode, fdownloaded, fresp, fpc>>

segVars == <<part, final, pc, attempt, gets, downloaded, resp, lastError>>
envVars == <<total, parallel, honorsRange>>
mergeVars == <<existing, concat_file, mp4_file, returncode, saved>>
fileVars == <<resume, disk, full_path, mode, fdownloaded, fresp, fpc>>

NoFile == <<-1>>
NoManifest == <<<<-1>>>>
NoName == -1
NoCode == -1

Segs == 1..total

\* ------------------------------------------------------------ the server
Body == [k \in 1..TotalSize |-> k - 1]

BodyFrom(offset) == SubSeq(Body, offset + 1, TotalSize)

Size(f) == IF f = NoFile THEN 0 ELSE Len(f)

\* The server's answer to GET with "Range: bytes=<d>-" when d > 0.
\* "416" stands for an error status, which raise_for_status turns into an
\* exception.
RangeReply(d) ==
    IF d > 0 /\ honorsRange
    THEN IF d >= TotalSize THEN "416" ELSE "206"
    ELSE "200"

ReplyBody(d) == IF d > 0 /\ honorsRange THEN BodyFrom(d) ELSE Body

\* ------------------------------------------------------------ file names
\* str(n): the decimal digits of n as code points ('0' = 48).
RECURSIVE Digits(_)
Digits(n) == IF n < 10 THEN <<48 + n>> ELSE Digits(n \div 10) \o <<48 + (n % 10)>>

\* local_filename = os.path.join(directory, f"segment_{idx}.ts"), without the
\* prefix "<directory>/segment_" that all segments of a run share:
\* str(idx) followed by ".ts" ('.' = 46, 't' = 116, 's' = 115).
LocalFilename(idx) == Digits(idx) \o <<46, 116, 115>>

\* The index a segment path was derived from.
MaxIndex == IF MaxSegs > OrderSegs THEN MaxSegs ELSE OrderSegs

IndexOf(path) == CHOOSE i \in 1..MaxIndex : LocalFilename(i) = path

\* Python's str.__lt__: lexicographic by code point, a proper prefix first.
RECURSIVE StrLess(_, _)
StrLess(a, b) ==
    IF b = <<>> THEN FALSE
    ELSE IF a = <<>> THEN TRUE
    ELSE IF Head(a) # Head(b) THEN Head(a) < Head(b)
    ELSE StrLess(Tail(a), Tail(b))

\* sorted(xs) for a list of strings: insertion into a sorted list.
RECURSIVE Insert(_, _)
Insert(x, xs) ==
    IF xs = <<>> THEN <<x>>
    ELSE IF StrLess(x, Head(xs)) THEN <<x>> \o xs
    ELSE <<Head(xs)>> \o Insert(x, Tail(xs))

RECURSIVE Sorted(_)
Sorted(xs) == IF xs = <<>> THEN <<>> ELSE Insert(Head(xs), Sorted(Tail(xs)))

\* ensure_unique_filename(directory, filename, extension).  An output name is
\* its suffix: 0 is filename+extension, n >= 1 is filename_<n>+extension;
\* dir is the set of names that exist.
UniqueLoop_NoRecheck(dir, candidate, counter) ==
    IF candidate \in dir THEN counter ELSE candidate

RECURSIVE UniqueLoop(_, _, _)
UniqueLoop(dir, candidate, counter) ==
    IF candidate \in dir
    THEN UniqueLoop(dir, counter, counter + 1)
    ELSE candidate

ensure_unique_filename(dir) == UniqueLoop(dir, 0, 1)

\* ------------------------------------------------------- download_segment
Running(i) == pc[i] \in {"get", "stream", "sleep"}

Finished(i) == pc[i] \in {"returned", "raised"}

InFlight == {i \in Segs : Running(i)}

\* The executor's workers take the queued work items in submission order, and
\* at most max_workers of them run at a time.  Lines 119-125 run at the
\* start of the job: the size of the .part file is read once.
PoolHasIdleWorker_Unbounded == TRUE

PoolHasIdleWorker == Cardinality(InFlight) < parallel

StartSegment_NotAfterExit(i) ==
    /\ pc[i] = "queued"
    /\ \A j \in Segs : j < i => pc[j] # "queued"
    /\ PoolHasIdleWorker
    /\ opc = "collect"
    /\ pc' = [pc EXCEPT ![i] = "get"]
    /\ attempt' = [attempt EXCEPT ![i] = 1]
    /\ downloaded' = [downloaded EXCEPT ![i] = Size(part[i])]
    /\ UNCHANGED <<part, final, gets, resp, lastError>>
    /\ UNCHANGED <<envVars, fileVars, faults, opc, yielded, segment_files, mergeVars,
                   exitStatus>>

StartSegment(i) ==
    /\ pc[i] = "queued"
    /\ \A j \in Segs : j < i => pc[j] # "queued"
    /\ PoolHasIdleWorker
    /\ pc' = [pc EXCEPT ![i] = "get"]
    /\ attempt' = [attempt EXCEPT ![i] = 1]
    /\ downloaded' = [downloaded EXCEPT ![i] = Size(part[i])]
    /\ UNCHANGED <<part, final, gets, resp, lastError>>
    /\ UNCHANGED <<envVars, fileVars, faults, opc, yielded, segment_files, mergeVars,
                   exitStatus>>

\* The offset of the Range header, built once from downloaded before the
\* loop (lines 123-125); 0 stands for a request without the header.
RangeOffset(i) == downloaded[i]

\* requests.get, raise_for_status and open(temp_filename, 'ab') succeed: the
\* .part file exists from here on and the body is streamed into it.
GetOk(i) ==
    /\ pc[i] = "get"
    /\ RangeReply(RangeOffset(i)) # "416"
    /\ gets' = [gets EXCEPT ![i] = gets[i] + 1]
    /\ resp' = [resp EXCEPT ![i] = ReplyBody(RangeOffset(i))]
    /\ part' = [part EXCEPT ![i] = IF part[i] = NoFile THEN <<>> ELSE part[i]]
    /\ pc' = [pc EXCEPT ![i] = "stream"]
    /\ UNCHANGED <<final, attempt, downloaded, lastError>>
    /\ UNCHANGED <<envVars, fileVars, faults, opc, yielded, segment_files, mergeVars,
                   exitStatus>>

\* f.write(chunk) of the next chunk of the response.
WriteChunk(i) ==
    /\ pc[i] = "stream"
    /\ resp[i] # <<>>
    /\ part' = [part EXCEPT ![i] = Append(part[i], Head(resp[i]))]
    /\ resp' = [resp EXCEPT ![i] = Tail(resp[i])]
    /\ UNCHANGED <<final, pc, attempt, gets, downloaded, lastError>>
    /\ UNCHANGED <<envVars, fileVars, faults, opc, yielded, segment_files, mergeVars,
                   exitStatus>>

\* The body is exhausted: os.rename(temp_filename, local_filename), which
\* replaces a final file that is already there, and return.
\* The function's locals are gone with it; attempt is kept as the number of
\* GET requests the job made.
RenameAndReturn_RemovesTemp(i) ==
    /\ pc[i] = "stream"
    /\ resp[i] = <<>>
    /\ final' = final
    /\ part' = [part EXCEPT ![i] = NoFile]
    /\ pc' = [pc EXCEPT ![i] = "returned"]
    /\ downloaded' = [downloaded EXCEPT ![i] = 0]
    /\ UNCHANGED <<attempt, gets, resp, lastError>>
    /\ UNCHANGED <<envVars, fileVars, faults, opc, yielded, segment_files, mergeVars,
                   exitStatus>>

RenameAndReturn(i) ==
    /\ pc[i] = "stream"
    /\ resp[i] = <<>>
    /\ final' = [final EXCEPT ![i] = part[i]]
    /\ part' = [part EXCEPT ![i] = NoFile]
    /\ pc' = [pc EXCEPT ![i] = "returned"]
    /\ downloaded' = [downloaded EXCEPT ![i] = 0]
    /\ UNCHANGED <<attempt, gets, resp, lastError>>
    /\ UNCHANGED <<envVars, fileVars, faults, opc, yielded, segment_files, mergeVars,
                   exitStatus>>

\* Any exception inside the try block (line 145): the request or the status
\* check fails, the connection drops while streaming ("network"), or open,
\* write or rename fails ("filesystem").  The handler prints and sleeps.
\* An attempt that fails before the body is streamed has made its request.
ErrorKinds == {"network", "filesystem"}

AttemptFails(i, kind) ==
    /\ pc[i] \in {"get", "stream"}
    /\ kind \in ErrorKinds
    /\ faults > 0
    /\ faults' = faults - 1
    /\ pc' = [pc EXCEPT ![i] = "sleep"]
    /\ lastError' = [lastError EXCEPT ![i] = kind]
    /\ gets' = [gets EXCEPT ![i] = IF pc[i] = "get" THEN gets[i] + 1 ELSE gets[i]]
    /\ resp' = [resp EXCEPT ![i] = <<>>]
    /\ UNCHANGED <<part, final, attempt, downloaded>>
    /\ UNCHANGED <<envVars, fileVars, opc, yielded, segment_files, mergeVars, exitStatus>>

\* The server refuses the range (the .part file is already as long as the
\* body): raise_for_status raises.
RangeRefused(i) ==
    /\ pc[i] = "get"
    /\ RangeReply(RangeOffset(i)) = "416"
    /\ gets' = [gets EXCEPT ![i] = gets[i] + 1]
    /\ pc' = [pc EXCEPT ![i] = "sleep"]
    /\ lastError' = [lastError EXCEPT ![i] = "network"]
    /\ UNCHANGED <<part, final, attempt, downloaded, resp>>
    /\ UNCHANGED <<envVars, fileVars, faults, opc, yielded, segment_files, mergeVars,
                   exitStatus>>

\* time.sleep is over: the next iteration of the loop, or, the loop being
\* exhausted, raise RuntimeError (line 148), whose message names the index and
\* not the exception that was caught.
NextAttempt_OffByOne(i) ==
    /\ pc[i] = "sleep"
    /\ attempt[i] <= MAX_RETRIES
    /\ attempt' = [attempt EXCEPT ![i] = attempt[i] + 1]
    /\ pc' = [pc EXCEPT ![i] = "get"]
    /\ lastError' = [lastError EXCEPT ![i] = "none"]
    /\ UNCHANGED <<part, final, gets, downloaded, resp>>
    /\ UNCHANGED <<envVars, fileVars, faults, opc, yielded, segment_files, mergeVars,
                   exitStatus>>

NextAttempt(i) ==
    /\ pc[i] = "sleep"
    /\ attempt[i] < MAX_RETRIES
    /\ attempt' = [attempt EXCEPT ![i] = attempt[i] + 1]
    /\ pc' = [pc EXCEPT ![i] = "get"]
    /\ lastError' = [lastError EXCEPT ![i] = "none"]
    /\ UNCHANGED <<part, final, gets, downloaded, resp>>
    /\ UNCHANGED <<envVars, fileVars, faults, opc, yielded, segment_files, mergeVars,
                   exitStatus>>

RaiseFailed_RemovesPart(i) ==
    /\ pc[i] = "sleep"
    /\ attempt[i] >= MAX_RETRIES
    /\ pc' = [pc EXCEPT ![i] = "raised"]
    /\ part' = [part EXCEPT ![i] = NoFile]
    /\ downloaded' = [downloaded EXCEPT ![i] = 0]
    /\ lastError' = [lastError EXCEPT ![i] = "none"]
    /\ UNCHANGED <<final, attempt, gets, resp>>
    /\ UNCHANGED <<envVars, fileVars, faults, opc, yielded, segment_files, mergeVars,
                   exitStatus>>

RaiseFailed(i) ==
    /\ pc[i] = "sleep"
    /\ attempt[i] >= MAX_RETRIES
    /\ pc' = [pc EXCEPT ![i] = "raised"]
    /\ downloaded' = [downloaded EXCEPT ![i] = 0]
    /\ lastError' = [lastError EXCEPT ![i] = "none"]
    /\ UNCHANGED <<part, final, attempt, gets, resp>>
    /\ UNCHANGED <<envVars, fileVars, faults, opc, yielded, segment_files, mergeVars,
                   exitStatus>>

\* ------------------------------------------- download_and_merge_segments
InList(x, xs) == \E k \in 1..Len(xs) : xs[k] = x

\* as_completed yields a finished future that was not yielded before;
\* future.result() returns the path, which is appended (lines 163-167).
CollectResult_LostUpdate(i) ==
    /\ opc = "collect"
    /\ pc[i] = "returned"
    /\ i \notin yielded
    /\ yielded' = yielded \cup {i}
    /\ segment_files' = IF i < Cardinality(yielded) + 1
                        THEN segment_files
                        ELSE Append(segment_files, LocalFilename(i))
    /\ UNCHANGED <<envVars, fileVars, faults, segVars, opc, mergeVars, exitStatus>>

CollectResult(i) ==
    /\ opc = "collect"
    /\ pc[i] = "returned"
    /\ i \notin yielded
    /\ yielded' = yielded \cup {i}
    /\ segment_files' = Append(segment_files, LocalFilename(i))
    /\ UNCHANGED <<envVars, fileVars, faults, segVars, opc, mergeVars, exitStatus>>

\* future.result() raises: sys.exit(1) (lines 168-170).  SystemExit leaves
\* the with block, whose __exit__ is executor.shutdown(wait=True).
CollectFailure_Continues(i) ==
    /\ opc = "collect"
    /\ pc[i] = "raised"
    /\ i \notin yielded
    /\ yielded' = yielded \cup {i}
    /\ UNCHANGED <<envVars, fileVars, faults, segVars, opc, segment_files, mergeVars,
                   exitStatus>>

CollectFailure(i) ==
    /\ opc = "collect"
    /\ pc[i] = "raised"
    /\ i \notin yielded
    /\ yielded' = yielded \cup {i}
    /\ opc' = "exiting"
    /\ UNCHANGED <<envVars, fileVars, faults, segVars, segment_files, mergeVars, exitStatus>>

\* shutdown(wait=True) joins the workers, which first drain the work queue;
\* then SystemExit ends the process with status 1.
ProcessExit ==
    /\ opc = "exiting"
    /\ \A i \in Segs : Finished(i)
    /\ opc' = "exited"
    /\ exitStatus' = 1
    /\ UNCHANGED <<envVars, fileVars, faults, segVars, yielded, segment_files, mergeVars>>

\* as_completed is exhausted and no iteration raised: the with block ends
\* and the manifest is written from sorted(segment_files) (lines 173-176).
WriteConcat_Unsorted ==
    /\ opc = "collect"
    /\ yielded = Segs
    /\ concat_file' = segment_files
    /\ opc' = "merge"
    /\ UNCHANGED <<envVars, fileVars, faults, segVars, yielded, segment_files, existing,
                   mp4_file, returncode, saved, exitStatus>>

WriteConcat ==
    /\ opc = "collect"
    /\ yielded = Segs
    /\ concat_file' = Sorted(segment_files)
    /\ opc' = "merge"
    /\ UNCHANGED <<envVars, fileVars, faults, segVars, yielded, segment_files, existing,
                   mp4_file, returncode, saved, exitStatus>>

\* Lines 178-185: the output name, subprocess.run of ffmpeg with mp4_file as
\* its output path (the return code is not looked at), the message.
ExitCodes == {0, 1}

\* What os.path.exists may find: any set of the output names up to suffix
\* MaxExisting.
Directories == SUBSET (0..MaxExisting)

Merge(dir, rc) ==
    /\ opc = "merge"
    /\ dir \in Directories
    /\ rc \in ExitCodes
    /\ existing' = dir
    /\ mp4_file' = ensure_unique_filename(dir)
    /\ returncode' = rc
    /\ saved' = TRUE
    /\ opc' = "cleanup"
    /\ UNCHANGED <<envVars, fileVars, faults, segVars, yielded, segment_files,
                   concat_file, exitStatus>>

\* Lines 188-190: os.remove of every collected segment file and of the
\* manifest; the function returns and the process ends with status 0.
Removed(files) ==
    [i \in Segs |-> IF InList(LocalFilename(i), files) THEN NoFile ELSE final[i]]

Cleanup ==
    /\ opc = "cleanup"
    /\ final' = Removed(segment_files)
    /\ concat_file' = NoManifest
    /\ opc' = "done"
    /\ exitStatus' = 0
    /\ UNCHANGED <<envVars, fileVars, faults, part, pc, attempt, gets, downloaded, resp,
                   lastError, yielded, segment_files, existing, mp4_file,
                   returncode, saved>>

\* ---------------------------------------------------------- download_file
\* The names ensure_unique_filename may look at: suffix 0 is
\* <filename><ext>, suffix n is <filename>_<n><ext>.
FileNames == 0..(MaxExisting + 1)

ExistingNames == {n \in FileNames : disk[n] # NoFile}

\* Lines 69-94: the HEAD request, the extension, the output name, and from
\* it the mode, downloaded and the Range header.
ChoosePath ==
    /\ fpc = "start"
    /\ LET path == ensure_unique_filename(ExistingNames)
           exists == disk[path] # NoFile
       IN  /\ full_path' = path
           /\ mode' = IF resume /\ exists THEN "ab" ELSE "wb"
           /\ fdownloaded' = IF resume /\ exists THEN Size(disk[path]) ELSE 0
    /\ fpc' = "get"
    /\ UNCHANGED <<envVars, faults, segVars, opc, yielded, segment_files,
                   mergeVars, exitStatus, resume, disk, fresp>>

\* Lines 98-99: requests.get with the headers (Range only in mode 'ab';
\* the status is not checked) and open(full_path, mode): 'wb' creates or
\* truncates the file, 'ab' keeps its content.
FileGet ==
    /\ fpc = "get"
    /\ fresp' = IF mode = "ab" THEN ReplyBody(fdownloaded) ELSE Body
    /\ disk' = [disk EXCEPT ![full_path] =
                     IF mode = "ab" THEN disk[full_path] ELSE <<>>]
    /\ fpc' = "stream"
    /\ UNCHANGED <<envVars, faults, segVars, opc, yielded, segment_files,
                   mergeVars, exitStatus, resume, full_path, mode, fdownloaded>>

\* Lines 107-110: f.write(chunk) of the next chunk.
FileWriteChunk ==
    /\ fpc = "stream"
    /\ fresp # <<>>
    /\ disk' = [disk EXCEPT ![full_path] = Append(disk[full_path], Head(fresp))]
    /\ fresp' = Tail(fresp)
    /\ UNCHANGED <<envVars, faults, segVars, opc, yielded, segment_files,
                   mergeVars, exitStatus, resume, full_path, mode, fdownloaded,
                   fpc>>

\* Lines 112-113: the body is exhausted, the message is printed.
FileSaved ==
    /\ fpc = "stream"
    /\ fresp = <<>>
    /\ fpc' = "saved"
    /\ UNCHANGED <<envVars, faults, segVars, opc, yielded, segment_files,
                   mergeVars, exitStatus, resume, disk, full_path, mode,
                   fdownloaded, fresp>>

\* download_file catches nothing: an exception of the request, of open or
\* of a write ends the process with what was written left on disk.
FileFails ==
    /\ fpc \in {"get", "stream"}
    /\ fpc' = "crashed"
    /\ fresp' = <<>>
    /\ UNCHANGED <<envVars, faults, segVars, opc, yielded, segment_files,
                   mergeVars, exitStatus, resume, disk, full_path, mode,
                   fdownloaded>>

\* ---------------------------------------------------------- specification
\* A run on a playlist does not call download_file.
InitNoFile ==
    /\ resume = TRUE
    /\ disk = [n \in FileNames |-> NoFile]
    /\ full_path = NoName
    /\ mode = "none"
    /\ fdownloaded = 0
    /\ fresp = <<>>
    /\ fpc = "unused"

\* A .part file left by an earlier, interrupted run is a prefix of the body.
PartialFiles == {NoFile} \cup {SubSeq(Body, 1, k) : k \in 1..TotalSize}

InitJob ==
    /\ pc = [i \in Segs |-> "queued"]
    /\ attempt = [i \in Segs |-> 0]
    /\ gets = [i \in Segs |-> 0]
    /\ downloaded = [i \in Segs |-> 0]
    /\ resp = [i \in Segs |-> <<>>]
    /\ lastError = [i \in Segs |-> "none"]
    /\ opc = "collect"
    /\ yielded = {}
    /\ segment_files = <<>>
    /\ existing = {}
    /\ concat_file = NoManifest
    /\ mp4_file = NoName
    /\ returncode = NoCode
    /\ saved = FALSE
    /\ exitStatus = NoCode
    /\ InitNoFile

\* The pool: up to MaxSegs segments on up to MaxParallel workers, any
\* leftover .part files, a server that honors ranges, up to MaxFaults
\* exceptions in the run.
Init ==
    /\ total \in 1..MaxSegs
    /\ parallel \in 1..MaxParallel
    /\ honorsRange = TRUE
    /\ faults = MaxFaults
    /\ part \in [Segs -> PartialFiles]
    /\ final = [i \in Segs |-> NoFile]
    /\ InitJob

\* What an earlier run can have left of a segment, as <<.part, final>>:
\* nothing, a .part file that is a prefix of the body, or, the run having
\* stopped between the rename and the cleanup, the complete final file.
LeftBehind == {<<p, NoFile>> : p \in PartialFiles} \cup {<<NoFile, Body>>}

\* One segment job: anything an earlier run left of the segment, a server
\* that honors ranges or one that does not, and as many exceptions as the
\* job has attempts.
InitSegment ==
    /\ total = 1
    /\ parallel = 1
    /\ honorsRange \in BOOLEAN
    /\ faults = MAX_RETRIES
    /\ \E left \in LeftBehind :
          /\ part = [i \in Segs |-> left[1]]
          /\ final = [i \in Segs |-> left[2]]
    /\ InitJob

\* sorted(segment_files) on playlists of up to OrderSegs segments (two-digit
\* indices).  The input is the list the collection loop leaves when every
\* job has returned its path: the paths in a completion order, drawn from
\* the rotations of the submission order and of its reverse.  At most one
\* job needed more than one attempt (its requests failed before any byte
\* was written); the others returned from their first.
Rotation(n, r) == [k \in 1..n |-> ((k + r - 1) % n) + 1]

CompletionOrders(n) ==
    {Rotation(n, r) : r \in 0..(n - 1)}
        \cup {[k \in 1..n |-> Rotation(n, r)[n + 1 - k]] : r \in 0..(n - 1)}

AttemptsOneRetried(n) ==
    {[i \in 1..n |-> IF i = r THEN a ELSE 1] : r \in 1..n, a \in 1..MAX_RETRIES}

InitOrder ==
    /\ total \in 1..OrderSegs
    /\ parallel \in 1..MaxParallel
    /\ honorsRange = TRUE
    /\ faults = 0
    /\ part = [i \in Segs |-> NoFile]
    /\ final = [i \in Segs |-> Body]
    /\ pc = [i \in Segs |-> "returned"]
    /\ attempt \in AttemptsOneRetried(total)
    /\ gets = attempt
    /\ downloaded = [i \in Segs |-> 0]
    /\ resp = [i \in Segs |-> <<>>]
    /\ lastError = [i \in Segs |-> "none"]
    /\ opc = "collect"
    /\ yielded = Segs
    /\ segment_files \in {[k \in 1..total |-> LocalFilename(o[k])] :
                             o \in CompletionOrders(total)}
    /\ existing = {}
    /\ concat_file = NoManifest
    /\ mp4_file = NoName
    /\ returncode = NoCode
    /\ saved = FALSE
    /\ exitStatus = NoCode
    /\ InitNoFile

NextOrder ==
    \/ WriteConcat
    \/ \E dir \in Directories, rc \in ExitCodes : Merge(dir, rc)
    \/ Cleanup

Next ==
    \/ \E i \in Segs : StartSegment(i)
    \/ \E i \in Segs : GetOk(i)
    \/ \E i \in Segs : WriteChunk(i)
    \/ \E i \in Segs : RenameAndReturn(i)
    \/ \E i \in Segs, kind \in ErrorKinds : AttemptFails(i, kind)
    \/ \E i \in Segs : RangeRefused(i)
    \/ \E i \in Segs : NextAttempt(i)
    \/ \E i \in Segs : RaiseFailed(i)
    \/ \E i \in Segs : CollectResult(i)
    \/ \E i \in Segs : CollectFailure(i)
    \/ ProcessExit
    \/ WriteConcat
    \/ \E dir \in Directories, rc \in ExitCodes : Merge(dir, rc)
    \/ Cleanup

Spec == Init /\ [][Next]_vars

SpecSegment == InitSegment /\ [][Next]_vars

SpecOrder == InitOrder /\ [][NextOrder]_vars

\* The whole environment: any leftover .part files, either kind of server,
\* and as many exceptions as one job has attempts.
InitRetry ==
    /\ total \in 1..MaxSegs
    /\ parallel \in 1..MaxParallel
    /\ honorsRange \in BOOLEAN
    /\ faults = MAX_RETRIES
    /\ part \in [Segs -> PartialFiles]
    /\ final = [i \in Segs |-> NoFile]
    /\ InitJob

SpecRetry == InitRetry /\ [][Next]_vars

\* Scheduling.  A worker thread that can take a step of its job takes it:
\* the threads are scheduled by the operating system, time.sleep returns,
\* and every request ends, with a response or with an exception (the
\* timeout of 15 seconds on line 129).  The main thread likewise runs the
\* collection loop, the exit and the merge steps when they are possible.
\* Nothing obliges a request to fail.
JobStep(i) ==
    \/ StartSegment(i)
    \/ GetOk(i)
    \/ WriteChunk(i)
    \/ RenameAndReturn(i)
    \/ \E kind \in ErrorKinds : AttemptFails(i, kind)
    \/ RangeRefused(i)
    \/ NextAttempt(i)
    \/ RaiseFailed(i)

OrchestratorStep ==
    \/ \E i \in Segs : CollectResult(i)
    \/ \E i \in Segs : CollectFailure(i)
    \/ ProcessExit
    \/ WriteConcat
    \/ \E dir \in Directories, rc \in ExitCodes : Merge(dir, rc)
    \/ Cleanup

Fairness ==
    /\ \A i \in 1..MaxSegs : WF_vars(i \in Segs /\ JobStep(i))
    /\ WF_vars(OrchestratorStep)

\* The pool of Init on segments that either have no .part file or have a
\* complete one left (whose requests the server refuses).
InitLive ==
    /\ total \in 1..MaxSegs
    /\ parallel \in 1..MaxParallel
    /\ honorsRange = TRUE
    /\ faults = MaxFaults
    /\ part \in [Segs -> {NoFile, Body}]
    /\ final = [i \in Segs |-> NoFile]
    /\ InitJob

SpecLive == InitLive /\ [][Next]_vars /\ Fairness

\* main's last branch: download_file on a direct URL, with either value of
\* resume, into a directory that may hold the files of earlier runs under
\* the names up to suffix MaxExisting: complete files and the prefixes that
\* interrupted downloads left.  There is no playlist and no pool.
InitFile ==
    /\ total = 0
    /\ parallel = 1
    /\ honorsRange \in BOOLEAN
    /\ faults = 0
    /\ part = [i \in Segs |-> NoFile]
    /\ final = [i \in Segs |-> NoFile]
    /\ pc = [i \in Segs |-> "queued"]
    /\ attempt = [i \in Segs |-> 0]
    /\ gets = [i \in Segs |-> 0]
    /\ downloaded = [i \in Segs |-> 0]
    /\ resp = [i \in Segs |-> <<>>]
    /\ lastError = [i \in Segs |-> "none"]
    /\ opc = "unused"
    /\ yielded = {}
    /\ segment_files = <<>>
    /\ existing = {}
    /\ concat_file = NoManifest
    /\ mp4_file = NoName
    /\ returncode = NoCode
    /\ saved = FALSE
    /\ exitStatus = NoCode
    /\ resume \in BOOLEAN
    /\ disk \in {f \in [FileNames -> PartialFiles] : f[MaxExisting + 1] = NoFile}
    /\ full_path = NoName
    /\ mode = "none"
    /\ fdownloaded = 0
    /\ fresp = <<>>
    /\ fpc = "start"

NextFile ==
    \/ ChoosePath
    \/ FileGet
    \/ FileWriteChunk
    \/ FileSaved
    \/ FileFails

SpecFile == InitFile /\ [][NextFile]_vars

\* ------------------------------------------------------------------ claims
AllSegmentFilesPresent == \A i \in Segs : final[i] # NoFile

AllSegmentFilesRemoved == \A i \in Segs : final[i] = NoFile

MuxFailed == returncode # NoCode /\ returncode # 0

\* C1: the paths written to the concat manifest are in ascending numeric
\* order of the segment index, for every number of segments and every
\* completion order.
C1_ManifestInIndexOrder ==
    concat_file # NoManifest =>
        \A k \in 1..(Len(concat_file) - 1) :
            IndexOf(concat_file[k]) < IndexOf(concat_file[k + 1])

\* C2: the segment files and the manifest are deleted if and only if ffmpeg
\* exited with 0; after a non-zero exit every segment file is still there.
C2_CleanupIffMuxSucceeded ==
    /\ MuxFailed => AllSegmentFilesPresent
    /\ opc = "done" =>
          ((AllSegmentFilesRemoved /\ concat_file = NoManifest) <=> returncode = 0)

\* C3: once the orchestrator has seen a segment failure (it left the
\* collection loop through sys.exit), no job that is still queued is started.
FailureObserved == opc \in {"exiting", "exited"}

C3_NoStartAfterObservedFailure ==
    [][FailureObserved =>
          \A i \in Segs : pc[i] = "queued" => pc'[i] = "queued"]_vars

\* C4: the number of download_segment invocations that are executing is at
\* most parallel, however many segments were submitted.
C4_InFlightAtMostParallel == Cardinality(InFlight) <= parallel

C4_Witness ==
    /\ total > parallel
    /\ Cardinality(InFlight) = parallel
    /\ \E i \in Segs : pc[i] = "queued"

\* C5: with a server that honors ranges, the .part file never holds more
\* bytes than the segment's total size, and a segment that download_segment
\* returned has exactly that size.
C5_SizeNeverExceedsTotal ==
    honorsRange =>
        \A i \in Segs :
            /\ Size(part[i]) <= TotalSize
            /\ pc[i] = "returned" => Size(final[i]) = TotalSize


\* C6: a segment that failed all its attempts leaves its .part file on disk
\* (while a job has not returned, its .part file is never removed or
\* shortened, so every byte written stays), the run ends in failure and never
\* reaches the merge, and the final file of every segment that was downloaded
\* is still there.
IsPrefix(a, b) == Len(a) <= Len(b) /\ SubSeq(b, 1, Len(a)) = a

SomeSegmentRaised == \E i \in Segs : pc[i] = "raised"

C6_FailedSegmentKeepsFiles ==
    /\ [](SomeSegmentRaised =>
            /\ opc \in {"collect", "exiting", "exited"}
            /\ exitStatus \in {NoCode, 1}
            /\ opc = "exited" => exitStatus = 1
            /\ \A j \in Segs : pc[j] = "returned" => final[j] # NoFile)
    /\ [][\A i \in Segs :
            (part[i] # NoFile /\ pc'[i] # "returned") =>
                (part'[i] # NoFile /\ IsPrefix(part[i], part'[i]))]_vars

C6_Witness ==
    /\ opc = "exited"
    /\ exitStatus = 1
    /\ \E i, j \in Segs :
          /\ pc[i] = "raised"
          /\ Size(part[i]) > TotalSize
          /\ pc[j] = "returned"
          /\ final[j] # NoFile

\* C7: when the server answers a Range request for a non-empty .part file
\* with the full body, the bytes on disk are discarded, so the file of a
\* segment that succeeded at once equals the server's body.
C7_RestartFromZero ==
    \A i \in Segs :
        (~honorsRange /\ pc[i] = "returned" /\ attempt[i] = 1) => final[i] = Body

\* C8: a non-zero exit code of ffmpeg ends the run in failure: the merged
\* output is not reported as saved and the exit status is not 0.
C8_MuxFailureIsTerminal ==
    MuxFailed => (~saved /\ exitStatus # 0)

\* C9: the manifest is written and ffmpeg is run only when every submitted
\* segment job has returned its path; with a failed segment the merge is
\* never reached.
Assembling == opc \in {"merge", "cleanup", "done"} \/ concat_file # NoManifest

C9_MuxOnlyAfterAllSucceeded ==
    Assembling =>
        /\ \A i \in Segs : pc[i] = "returned"
        /\ \A i \in Segs : InList(LocalFilename(i), segment_files)
        /\ Len(segment_files) = total
        /\ concat_file # NoManifest =>
              \A i \in Segs : InList(LocalFilename(i), concat_file)
        /\ opc = "merge" => AllSegmentFilesPresent

C9_Witness ==
    /\ total = MaxSegs
    /\ opc = "cleanup"
    /\ Len(concat_file) = total
    /\ \E i \in Segs : attempt[i] > 1

\* C10: ensure_unique_filename returns a name that is not in the directory:
\* filename+extension if it is free, otherwise filename_<n>+extension for the
\* smallest free n >= 1; so ffmpeg's output path is never an existing file.
C10_UniqueOutputName ==
    mp4_file # NoName =>
        /\ mp4_file \notin existing
        /\ mp4_file # 0 =>
              /\ 0 \in existing
              /\ \A n \in 1..(mp4_file - 1) : n \in existing

C10_Witness ==
    /\ returncode = 0
    /\ existing = {0, 1}
    /\ mp4_file = 2

\* C11: the manifest and the set of segment files of a successful run are
\* the same whatever the worker count and whatever the order in which the
\* jobs completed: the manifest is sorted() of the submitted paths, a value
\* that depends on the segment list alone, and when it is written the final
\* file of every submitted segment, and of no other, is in the directory.
SubmittedPaths == [k \in 1..total |-> LocalFilename(k)]

C11_ManifestIndependentOfInterleaving ==
    concat_file # NoManifest =>
        /\ concat_file = Sorted(SubmittedPaths)
        /\ opc = "merge" => {i \in Segs : final[i] # NoFile} = Segs

\* Two workers, the second segment collected first, the manifest written.
C11_Witness ==
    /\ parallel = 2
    /\ total = 2
    /\ concat_file # NoManifest
    /\ segment_files = <<LocalFilename(2), LocalFilename(1)>>

\* C12: when one segment fails fewer than MAX_RETRIES times and then
\* succeeds while every other segment succeeds on its first attempt, the
\* job does not exit with a failure, every segment that succeeded on its
\* first attempt was requested exactly once, and the manifest lists every
\* segment in index order.
OneSegmentRetried ==
    \E r \in Segs :
        /\ attempt[r] \in 2..MAX_RETRIES
        /\ \A j \in Segs : pc[j] = "returned" /\ (j # r => attempt[j] = 1)

C12_OneRetriedSegmentJobSucceeds ==
    OneSegmentRetried =>
        /\ opc \notin {"exiting", "exited"}
        /\ \A j \in Segs : attempt[j] = 1 => gets[j] = 1
        /\ concat_file # NoManifest => concat_file = SubmittedPaths

\* The same statement on playlists of fewer than ten segments.
C12_HoldsBelowTenSegments ==
    total < 10 => C12_OneRetriedSegmentJobSucceeds

\* C13: download_file called with resume=True while the target file
\* <filename><ext> of an earlier, interrupted download exists with size S
\* requests the bytes from offset S on and appends to that file.
C13_ResumesInterruptedDownload ==
    (fpc = "get" /\ resume /\ disk[0] # NoFile) =>
        /\ full_path = 0
        /\ mode = "ab"
        /\ fdownloaded = Size(disk[0])

\* download_file never opens a file in mode 'ab': the name it writes to
\* did not exist when it was chosen.
C13_NeverAppends ==
    /\ mode # "ab"
    /\ fpc = "get" => disk[full_path] = NoFile

\* C14: every GET of download_segment, the first and every retry, that is
\* made while the .part file has size S > 0 asks for the bytes from offset
\* S on, S being the size at the time of that request.
C14_EveryGetRequestsCurrentSize ==
    [][\A i \in Segs :
          (gets'[i] = gets[i] + 1 /\ Size(part[i]) > 0) =>
              RangeOffset(i) = Size(part[i])]_vars

\* The first GET of a job does ask for the bytes from the current size on.
C14_FirstGetRequestsCurrentSize ==
    [][\A i \in Segs :
          (gets[i] = 0 /\ gets'[i] = 1 /\ Size(part[i]) > 0) =>
              RangeOffset(i) = Size(part[i])]_vars

\* C15: a job makes at most MAX_RETRIES GET requests for its segment; it
\* raises its terminal error only after exactly MAX_RETRIES failed attempts;
\* the orchestrator is handed a job only when the job has ended, so a failed
\* attempt that is not the last is never visible to it; and a job that has
\* ended is never run again.
C15_AtMostRetriesAttempts ==
    /\ [](\A i \in Segs :
            /\ gets[i] <= MAX_RETRIES
            /\ attempt[i] <= MAX_RETRIES
            /\ pc[i] = "raised" => (gets[i] = MAX_RETRIES /\ attempt[i] = MAX_RETRIES)
            /\ i \in yielded => Finished(i)
            /\ opc \in {"exiting", "exited"} => \E j \in Segs : pc[j] = "raised")
    /\ [][\A i \in Segs :
             Finished(i) => (pc'[i] = pc[i] /\ gets'[i] = gets[i])]_vars

\* The job failed MAX_RETRIES times and the orchestrator exited on it.
C15_Witness ==
    /\ pc[1] = "raised"
    /\ gets[1] = MAX_RETRIES
    /\ opc = "exited"

\* C16: a filesystem error (opening or writing the .part file, the rename)
\* is terminal for the segment: after the attempt in which it occurred the
\* job makes no further attempt, it ends with its error.
C16_FilesystemErrorIsTerminal ==
    [][\A i \in Segs :
          (pc[i] = "sleep" /\ lastError[i] = "filesystem") =>
              (pc'[i] \in {"sleep", "raised"} /\ gets'[i] = gets[i])]_vars

\* A filesystem error in the last attempt does end the job.
C16_LastAttemptIsTerminal ==
    [][\A i \in Segs :
          (pc[i] = "sleep" /\ lastError[i] = "filesystem"
               /\ attempt[i] = MAX_RETRIES) =>
              pc'[i] \in {"sleep", "raised"}]_vars

\* C17: for every segment, from the moment its job has the .part file open
\* for writing until the cleanup, at least one of segment_<i>.ts.part and
\* segment_<i>.ts exists: once either exists, no step before the cleanup
\* leaves the segment with neither, the rename included.
C17_TempOrFinalExists ==
    /\ [](\A i \in Segs :
            (pc[i] \in {"stream", "returned"} /\ opc # "done") =>
                (part[i] # NoFile \/ final[i] # NoFile))
    /\ [][\A i \in Segs :
             ((part[i] # NoFile \/ final[i] # NoFile) /\ opc' # "done") =>
                 (part'[i] # NoFile \/ final'[i] # NoFile)]_vars

\* The rename has happened and the cleanup has not.
C17_Witness ==
    /\ pc[1] = "returned"
    /\ part[1] = NoFile
    /\ final[1] # NoFile
    /\ opc = "collect"

\* C18: every submitted job eventually ends, returned or raised, and stays
\* ended with that one outcome; the orchestrator eventually reaches a
\* terminal state, the hand-over to the merge step or the exit with a
\* failure; and no segment is handed to the collection loop twice.
OrchestratorTerminal == opc \in {"merge", "cleanup", "done", "exited"}

C18_JobsEndAndOrchestratorTerminates ==
    /\ <>[](\A i \in Segs : Finished(i))
    /\ <>[]OrchestratorTerminal
    /\ [][\A i \in Segs : Finished(i) => pc'[i] = pc[i]]_vars
    /\ [](\A k, l \in 1..Len(segment_files) :
              segment_files[k] = segment_files[l] => k = l)

\* The run failed on one segment and the other job has ended all the same.
C18_Witness ==
    /\ total = 2
    /\ opc = "exited"
    /\ \E i \in Segs : pc[i] = "returned"
    /\ \A i \in Segs : Finished(i)

\* C19: whatever the order in which the jobs complete, the result list
\* holds one entry per job collected so far, and when the collection loop
\* has finished without a failure it holds the path of every submitted
\* segment exactly once: its length is the number of submitted segments.
Occurrences(path) ==
    Cardinality({k \in 1..Len(segment_files) : segment_files[k] = path})

C19_ResultListComplete ==
    /\ Len(segment_files) = Cardinality({i \in yielded : pc[i] = "returned"})
    /\ \A i \in Segs :
          Occurrences(LocalFilename(i)) = IF i \in yielded /\ pc[i] = "returned" THEN 1 ELSE 0
    /\ opc \in {"merge", "cleanup", "done"} =>
          /\ Len(segment_files) = total
          /\ \A i \in Segs : Occurrences(LocalFilename(i)) = 1

\* Two workers, two segments, one of them retried, the loop finished.
C19_Witness ==
    /\ total = 2
    /\ parallel = 2
    /\ opc = "merge"
    /\ Len(segment_files) = 2
    /\ \E i \in Segs : attempt[i] > 1

\* C20: a run against a directory that already holds the completed final
\* file segment_<i>.ts does not download segment i again: as long as that
\* file is the one the earlier run left, the job has made no GET request
\* and there is no .part file next to it.
C20_CompletedSegmentNotDownloadedAgain ==
    \A i \in Segs :
        (final[i] # NoFile /\ pc[i] # "returned") =>
            (gets[i] = 0 /\ part[i] = NoFile)

====
